---- MODULE Spec2Model ----
(***************************************************************************)
(* Model of src/GeradorRelatorio.py: the Streamlit dashboard that          *)
(* reconciles a production export with a retained-material export.         *)
(*                                                                         *)
(* Conventions of the model                                                *)
(*  - a Python str is a sequence of one-character strings, so that         *)
(*    lower(), strip(), "kw in col" and re.findall(r'\d+') are computed;   *)
(*  - a Python/pandas float is an exact rational [t, n, d] or one of the   *)
(*    IEEE values nan / inf / -inf that pandas division yields;            *)
(*  - a spreadsheet cell is a record [k, s, n]: a str cell, an int cell or *)
(*    an empty (NaN) cell;                                                 *)
(*  - a DataFrame is the sequence of its column names plus the sequence    *)
(*    of its rows, each row a sequence of cells aligned with the columns.  *)
(***************************************************************************)
EXTENDS Integers, Sequences, FiniteSets, TLC

VARIABLES
    file_prod,        \* st.file_uploader "Arquivo de Producao": the uploaded file
    file_ret,         \* st.file_uploader "Arquivo de Retidos"
    META_PCT,         \* slider value, in tenths of a percent (5 = 0.5 %)
    motivo_alvo,      \* selectbox "Escolha o Motivo"
    motivos_excluir,  \* multiselect "Excluir Motivos"
    grupos_dict,      \* st.session_state.grupos_dict, in insertion order
    tela,             \* what the last script run computed and displayed
    ultima_acao,      \* the operator interaction that caused the last run
    consulta          \* SpecColuna, SpecLinha: one call of a pure function

vars == <<file_prod, file_ret, META_PCT, motivo_alvo, motivos_excluir,
          grupos_dict, tela, ultima_acao, consulta>>

---------------------------------------------------------------------------
(* Bounds of the model.                                                    *)

\* number of data rows of an uploaded production table (SpecAgregacao,
\* SpecFiltros)
MaxLinhasProd == 2
\* number of data rows of an uploaded retained table (SpecAgregacao,
\* SpecFiltros)
MaxLinhasRet == 1
\* number of distinct group names the operator types (Spec, SpecGrupos)
MaxGrupos == 2
\* number of columns of a table handed to identificar_coluna (SpecColuna)
MaxColunas == 2
\* length of a column name handed to identificar_coluna (SpecColuna)
MaxNome == 2
\* number of keywords handed to identificar_coluna (SpecColuna)
MaxKeywords == 2
\* length of a text identifier handed to mapear_linha (SpecLinha)
MaxIdentificador == 4

---------------------------------------------------------------------------
(* Python str                                                              *)

MAIUSCULAS == <<"A","B","C","D","E","F","G","H","I","J","K","L","M",
                "N","O","P","Q","R","S","T","U","V","W","X","Y","Z">>
MINUSCULAS == <<"a","b","c","d","e","f","g","h","i","j","k","l","m",
                "n","o","p","q","r","s","t","u","v","w","x","y","z">>
DIGITOS == <<"0","1","2","3","4","5","6","7","8","9">>
ESPACOS == {" "}

\* code-point order of the characters the model uses (str comparison)
CODIGOS == <<" ", "$", ",", "-", ".", "/">> \o DIGITOS \o MAIUSCULAS
           \o MINUSCULAS \o <<"\\u00b2", "\\u00e9">>

RangeOf(s) == {s[i] : i \in 1..Len(s)}

IndexIn(c, s) == CHOOSE i \in 1..Len(s) : s[i] = c

\* the code-point rank of each character, as a table
ORD == [c \in RangeOf(CODIGOS) |-> IndexIn(c, CODIGOS)]

ord(c) == ORD[c]

\* str.lower() of one character, as a table
PARA_MINUSCULA ==
    [c \in RangeOf(CODIGOS) |->
        IF c \in RangeOf(MAIUSCULAS) THEN MINUSCULAS[IndexIn(c, MAIUSCULAS)]
        ELSE c]

lower_char(c) == PARA_MINUSCULA[c]

lower(s) == [i \in 1..Len(s) |-> lower_char(s[i])]

RECURSIVE lstrip(_)
lstrip(s) == IF s # <<>> /\ Head(s) \in ESPACOS THEN lstrip(Tail(s)) ELSE s

RECURSIVE rstrip(_)
rstrip(s) ==
    IF s # <<>> /\ s[Len(s)] \in ESPACOS
    THEN rstrip(SubSeq(s, 1, Len(s) - 1))
    ELSE s

strip(s) == rstrip(lstrip(s))

\* Python's `kw in col` on two str
contem(kw, col) ==
    \E i \in 0..(Len(col) - Len(kw)) : \A j \in 1..Len(kw) : col[i + j] = kw[j]

\* Python's `a < b` on two str: lexicographic by code point
RECURSIVE str_lt(_, _)
str_lt(a, b) ==
    IF b = <<>> THEN FALSE
    ELSE IF a = <<>> THEN TRUE
    ELSE IF Head(a) = Head(b) THEN str_lt(Tail(a), Tail(b))
    ELSE ord(Head(a)) < ord(Head(b))

\* str.replace(old, '') for a one- or two-character `old`
RECURSIVE remover(_, _)
remover(s, old) ==
    IF Len(s) < Len(old) THEN s
    ELSE IF SubSeq(s, 1, Len(old)) = old
         THEN remover(SubSeq(s, Len(old) + 1, Len(s)), old)
         ELSE <<Head(s)>> \o remover(Tail(s), old)

\* str.replace(a, b) for single characters
trocar(s, a, b) == [i \in 1..Len(s) |-> IF s[i] = a THEN b ELSE s[i]]

\* int() of a run of decimal digits
RECURSIVE int_de(_)
int_de(ds) ==
    IF ds = <<>> THEN 0
    ELSE 10 * int_de(SubSeq(ds, 1, Len(ds) - 1))
         + (IndexIn(ds[Len(ds)], DIGITOS) - 1)

ALGARISMOS == RangeOf(DIGITOS)

eh_digitos(s) == \A i \in 1..Len(s) : s[i] \in ALGARISMOS

\* str() of a non-negative int
RECURSIVE str_de_int(_)
str_de_int(n) ==
    IF n < 10 THEN <<DIGITOS[n + 1]>>
    ELSE str_de_int(n \div 10) \o <<DIGITOS[(n % 10) + 1]>>

---------------------------------------------------------------------------
(* Python float, exactly                                                   *)

RECURSIVE mdc(_, _)
mdc(a, b) == IF b = 0 THEN a ELSE mdc(b, a % b)

abs(x) == IF x < 0 THEN -x ELSE x

NaN == [t |-> "nan", n |-> 0, d |-> 1]
Inf == [t |-> "inf", n |-> 1, d |-> 0]
MenosInf == [t |-> "inf", n |-> -1, d |-> 0]

\* the finite float n/d (d # 0), in lowest terms with d > 0
Frac(n, d) ==
    LET g == mdc(abs(n), abs(d))
        s == IF d < 0 THEN -1 ELSE 1
    IN [t |-> "fin", n |-> (s * n) \div g, d |-> (s * d) \div g]

Num(n) == [t |-> "fin", n |-> n, d |-> 1]
Zero == Num(0)

f_add(a, b) == Frac(a.n * b.d + b.n * a.d, a.d * b.d)
f_sub(a, b) == Frac(a.n * b.d - b.n * a.d, a.d * b.d)
f_mul(a, b) == Frac(a.n * b.n, a.d * b.d)

\* a / b as pandas (numpy) divides two finite float64: no exception on zero
f_div(a, b) ==
    IF b.n = 0
    THEN IF a.n = 0 THEN NaN ELSE IF a.n > 0 THEN Inf ELSE MenosInf
    ELSE Frac(a.n * b.d, a.d * b.n)

\* a <= b on floats: every comparison with nan is False
f_le(a, b) ==
    IF a.t = "nan" \/ b.t = "nan" THEN FALSE
    ELSE IF a.t = "inf" THEN (a.n < 0 \/ (b.t = "inf" /\ b.n > 0))
    ELSE IF b.t = "inf" THEN b.n > 0
    ELSE a.n * b.d <= b.n * a.d

f_gt(a, b) ==
    IF a.t = "nan" \/ b.t = "nan" THEN FALSE ELSE ~f_le(a, b)

RECURSIVE f_sum(_)
f_sum(s) == IF s = <<>> THEN Zero ELSE f_add(Head(s), f_sum(Tail(s)))

---------------------------------------------------------------------------
(* Spreadsheet cells and tables                                            *)

cel_str(s) == [k |-> "str", s |-> s, n |-> 0]
cel_int(n) == [k |-> "int", s |-> <<>>, n |-> n]
cel_nan == [k |-> "nan", s |-> <<>>, n |-> 0]
\* a datetime cell (a date-formatted spreadsheet cell), n = yyyymmdd
cel_data(ano, mes, dia) ==
    [k |-> "data", s |-> <<>>, n |-> ano * 10000 + mes * 100 + dia]

\* a number zero-padded to two digits
dois_digitos(n) == <<DIGITOS[(n \div 10) + 1], DIGITOS[(n % 10) + 1]>>

\* str(value) of a cell value
str_de(cel) ==
    IF cel.k = "str" THEN cel.s
    ELSE IF cel.k = "int"
    THEN IF cel.n < 0 THEN <<"-">> \o str_de_int(-cel.n)
         ELSE str_de_int(cel.n)
    ELSE IF cel.k = "data"
    THEN str_de_int(cel.n \div 10000) \o <<"-">>
         \o dois_digitos((cel.n \div 100) % 100) \o <<"-">>
         \o dois_digitos(cel.n % 100)
         \o <<" ", "0", "0", ":", "0", "0", ":", "0", "0">>
    ELSE <<"n", "a", "n">>

\* pd.isna(value)
isna(cel) == cel.k = "nan"

\* position of column `col` in df.columns; df[col] reads that cell of a row
pos_coluna(columns, col) == IndexIn(col, columns)

---------------------------------------------------------------------------
(* mapear_linha                                                            *)

\* re.findall(r'\d+', s)[0]: the first maximal run of digits, <<>> if none
RECURSIVE prefixo_digitos(_)
prefixo_digitos(s) ==
    IF s # <<>> /\ Head(s) \in ALGARISMOS
    THEN <<Head(s)>> \o prefixo_digitos(Tail(s))
    ELSE <<>>

\* every digit of the text, whatever run it belongs to
todos_os_digitos(s) == SelectSeq(s, LAMBDA c : c \in ALGARISMOS)

RECURSIVE primeiro_numero(_)
primeiro_numero(s) ==
    IF s = <<>> THEN <<>>
    ELSE IF Head(s) \in ALGARISMOS THEN prefixo_digitos(s)
    ELSE primeiro_numero(Tail(s))

mapear_linha(forno) ==
    LET nums == primeiro_numero(str_de(forno))
    IN IF nums = <<>> THEN "Outros"
       ELSE LET forno_int == int_de(nums)
            IN IF forno_int \in {10, 11} THEN "Linha 4 e 5"
               ELSE IF forno_int \in {12, 13} THEN "Linha 6"
               ELSE "Outros"

\* order of the three line names as Python compares the strings
ordem_linha(l) ==
    IF l = "Linha 4 e 5" THEN 1 ELSE IF l = "Linha 6" THEN 2 ELSE 3

---------------------------------------------------------------------------
(* limpar_numero                                                           *)

RECURSIVE pot10(_)
pot10(j) == IF j = 0 THEN 1 ELSE 10 * pot10(j - 1)

\* float(text) for the unsigned texts digits, digits.digits, digits. and
\* .digits; any other text raises ValueError, reported here as NaN
float_sem_sinal(txt) ==
    LET pontos == {i \in 1..Len(txt) : txt[i] = "."}
    IN IF txt = <<>> THEN NaN
       ELSE IF pontos = {} THEN
            IF eh_digitos(txt) THEN Num(int_de(txt)) ELSE NaN
       ELSE IF Cardinality(pontos) > 1 THEN NaN
       ELSE LET p == CHOOSE i \in pontos : TRUE
                esq == SubSeq(txt, 1, p - 1)
                dir == SubSeq(txt, p + 1, Len(txt))
            IN IF Len(txt) = 1 \/ ~eh_digitos(esq) \/ ~eh_digitos(dir)
               THEN NaN
               ELSE Frac(int_de(esq) * pot10(Len(dir)) + int_de(dir),
                         pot10(Len(dir)))

\* float(text) with its optional sign
float_de(txt) ==
    IF txt # <<>> /\ txt[1] = "-"
    THEN LET f == float_sem_sinal(Tail(txt))
         IN IF f.t = "nan" THEN NaN ELSE Frac(-f.n, f.d)
    ELSE IF txt # <<>> /\ txt[1] = "+" THEN float_sem_sinal(Tail(txt))
    ELSE float_sem_sinal(txt)

limpar_numero(val) ==
    IF isna(val) THEN Zero
    ELSE IF val.k = "int" THEN Num(val.n)
    ELSE LET v1 == remover(remover(strip(str_de(val)), <<"R", "$">>), <<" ">>)
             v2 == trocar(remover(v1, <<".">>), ",", ".")
             f == float_de(v2)
         IN IF f.t = "nan" THEN Zero ELSE f

---------------------------------------------------------------------------
(* identificar_coluna                                                      *)

None == [achou |-> FALSE, nome |-> <<>>]
Coluna(c) == [achou |-> TRUE, nome |-> c]

colunas_df(columns) == [i \in 1..Len(columns) |-> strip(lower(columns[i]))]

\* {c.lower().strip(): c for c in df.columns}[col]: a later column with the
\* same key overwrites an earlier one
mapa_cols(columns, cd, col) ==
    columns[CHOOSE i \in 1..Len(cd) :
                cd[i] = col /\ \A j \in (i + 1)..Len(cd) : cd[j] # col]

\* the two loops of identificar_coluna from keyword k, column i onwards
RECURSIVE procurar(_, _, _, _, _)
procurar(columns, cd, keywords, k, i) ==
    IF k > Len(keywords) THEN None
    ELSE IF i > Len(cd) THEN procurar(columns, cd, keywords, k + 1, 1)
    ELSE IF contem(keywords[k], cd[i])
         THEN Coluna(mapa_cols(columns, cd, cd[i]))
         ELSE procurar(columns, cd, keywords, k, i + 1)

identificar_coluna(columns, keywords) ==
    procurar(columns, colunas_df(columns), keywords, 1, 1)

---------------------------------------------------------------------------
(* carregar_arquivo                                                        *)

\* An uploaded file: its extension and what each pandas reader makes of it.
\* FALHA is a reader raising; otherwise the reader returns a DataFrame.
FALHA == [ok |-> FALSE, columns |-> <<>>, linhas |-> <<>>]
DataFrame(columns, linhas) == [ok |-> TRUE, columns |-> columns, linhas |-> linhas]

SemArquivo == [enviado |-> FALSE, ext |-> "", virgula |-> FALHA,
               ponto_virgula |-> FALHA, excel |-> FALHA]
ArquivoExcel(r) == [enviado |-> TRUE, ext |-> "xlsx", virgula |-> FALHA,
                    ponto_virgula |-> FALHA, excel |-> r]
ArquivoCsv(r1, r2) == [enviado |-> TRUE, ext |-> "csv", virgula |-> r1,
                       ponto_virgula |-> r2, excel |-> FALHA]

\* returns the DataFrame, or FALHA for Python's None
carregar_arquivo(uploaded_file) ==
    IF uploaded_file.ext = "csv"
    THEN IF uploaded_file.virgula.ok THEN uploaded_file.virgula
         ELSE uploaded_file.ponto_virgula
    ELSE uploaded_file.excel

---------------------------------------------------------------------------
(* Column identification (mapeamento inteligente) and validation           *)

KW_EQUIPE == <<<<"e", "q", "u", "i", "p", "e">>,
               <<"t", "e", "a", "m">>,
               <<"t", "u", "r", "n", "o">>>>
KW_FORNO == <<<<"f", "o", "r", "n", "o">>,
              <<"l", "i", "n", "h", "a">>,
              <<"m", "a", "q">>>>
KW_METRAGEM == <<<<"m", "e", "t", "r", "a", "g", "e", "m">>,
                 <<"m", "2">>,
                 <<"p", "r", "o", "d">>>>
KW_DATA_P == <<<<"d", "a", "t", "a">>,
               <<"d", "a", "t", "e">>,
               <<"d", "i", "a">>>>
KW_MOTIVO == <<<<"m", "o", "t", "i", "v", "o">>,
               <<"d", "e", "f", "e", "i", "t", "o">>,
               <<"c", "a", "u", "s", "a">>>>
KW_M2 == <<<<"m", "\\u00b2">>,
           <<"m", "2">>,
           <<"m", "e", "t", "r", "a", "g", "e", "m">>,
           <<"q", "u", "a", "n", "t">>>>
KW_DATA_R == <<<<"d", "a", "t", "a">>,
               <<"d", "a", "t", "e">>,
               <<"d", "i", "a">>,
               <<"h", "o", "r", "a">>>>

\* the bindings of the logical fields of both tables
mapeamento(df_prod, df_ret) ==
    [col_equipe_p |-> identificar_coluna(df_prod.columns, KW_EQUIPE),
     col_forno_p |-> identificar_coluna(df_prod.columns, KW_FORNO),
     col_metragem |-> identificar_coluna(df_prod.columns, KW_METRAGEM),
     col_data_p |-> identificar_coluna(df_prod.columns, KW_DATA_P),
     col_motivo |-> identificar_coluna(df_ret.columns, KW_MOTIVO),
     col_m2 |-> identificar_coluna(df_ret.columns, KW_M2),
     col_equipe_r |-> identificar_coluna(df_ret.columns, KW_EQUIPE),
     col_forno_r |-> identificar_coluna(df_ret.columns, KW_FORNO),
     col_data_r |-> identificar_coluna(df_ret.columns, KW_DATA_R)]

\* `if not col: erros_mapeamento.append(msg)`
anexar_se(falta, msg) == IF falta THEN <<msg>> ELSE <<>>

\* a validation that stops at the first missing field
erros_ate_o_primeiro(m) ==
    IF ~m.col_equipe_p.achou
    THEN <<"Arquivo Producao: Coluna de 'Equipe' nao encontrada.">>
    ELSE IF ~m.col_forno_p.achou
    THEN <<"Arquivo Producao: Coluna de 'Forno' ou 'Linha' nao encontrada.">>
    ELSE IF ~m.col_metragem.achou
    THEN <<"Arquivo Producao: Coluna de 'Metragem' ou 'Producao' nao encontrada.">>
    ELSE IF ~m.col_motivo.achou
    THEN <<"Arquivo Retidos: Coluna de 'Motivo' nao encontrada.">>
    ELSE IF ~m.col_m2.achou
    THEN <<"Arquivo Retidos: Coluna de 'M2' ou 'Metragem' nao encontrada.">>
    ELSE IF ~m.col_equipe_r.achou
    THEN <<"Arquivo Retidos: Coluna de 'Equipe' nao encontrada.">>
    ELSE IF ~m.col_forno_r.achou
    THEN <<"Arquivo Retidos: Coluna de 'Forno' ou 'Linha' nao encontrada.">>
    ELSE <<>>

\* lines 202-204 and 213-216; the texts are kept without their accents
erros_mapeamento(m) ==
    anexar_se(~m.col_equipe_p.achou,
              "Arquivo Producao: Coluna de 'Equipe' nao encontrada.")
    \o anexar_se(~m.col_forno_p.achou,
              "Arquivo Producao: Coluna de 'Forno' ou 'Linha' nao encontrada.")
    \o anexar_se(~m.col_metragem.achou,
              "Arquivo Producao: Coluna de 'Metragem' ou 'Producao' nao encontrada.")
    \o anexar_se(~m.col_motivo.achou,
              "Arquivo Retidos: Coluna de 'Motivo' nao encontrada.")
    \o anexar_se(~m.col_m2.achou,
              "Arquivo Retidos: Coluna de 'M2' ou 'Metragem' nao encontrada.")
    \o anexar_se(~m.col_equipe_r.achou,
              "Arquivo Retidos: Coluna de 'Equipe' nao encontrada.")
    \o anexar_se(~m.col_forno_r.achou,
              "Arquivo Retidos: Coluna de 'Forno' ou 'Linha' nao encontrada.")

ERRO_LEITURA_PROD == "Erro ao ler o arquivo de Producao."
ERRO_LEITURA_RET == "Erro ao ler o arquivo de Retidos."

---------------------------------------------------------------------------
(* PROCESSAMENTO DOS DADOS                                                 *)

\* `corpo` applied to the value of `v`, which is computed once, as the
\* script computes a local variable once and then reads it
Com(v, corpo(_)) == CHOOSE r \in {corpo(x) : x \in {v}} : TRUE

SEM_DATA == cel_str(<<"S", "e", "m", " ", "D", "a", "t", "a">>)

bucket(ano, mes) == cel_str(str_de_int(ano) \o <<"-">> \o dois_digitos(mes))

\* pd.to_datetime(cell, dayfirst=True, errors='coerce').strftime('%Y-%m'):
\* a datetime cell keeps its month, the text dd/mm/yyyy is parsed day first,
\* an int is nanoseconds after 1970-01-01, anything else of the model's
\* cells is NaT, whose strftime is NaN
mes_ano_de(cel) ==
    IF cel.k = "data" THEN bucket(cel.n \div 10000, (cel.n \div 100) % 100)
    ELSE IF cel.k = "int" THEN bucket(1970, 1)
    ELSE IF cel.k = "nan" THEN cel_nan
    ELSE LET t == cel.s
         IN IF Len(t) = 10 /\ t[3] = "/" /\ t[6] = "/"
               /\ eh_digitos(SubSeq(t, 1, 2)) /\ eh_digitos(SubSeq(t, 4, 5))
               /\ eh_digitos(SubSeq(t, 7, 10))
               /\ int_de(SubSeq(t, 1, 2)) \in 1..28
               /\ int_de(SubSeq(t, 4, 5)) \in 1..12
               /\ int_de(SubSeq(t, 7, 10)) \in 1678..2261
            THEN bucket(int_de(SubSeq(t, 7, 10)), int_de(SubSeq(t, 4, 5)))
            ELSE cel_nan

\* the positions, in each table, of the columns the fields are bound to
\* (0: the optional date column is absent)
posicoes(df_prod, df_ret, m) ==
    [equipe_p |-> pos_coluna(df_prod.columns, m.col_equipe_p.nome),
     forno_p |-> pos_coluna(df_prod.columns, m.col_forno_p.nome),
     metragem |-> pos_coluna(df_prod.columns, m.col_metragem.nome),
     data_p |-> IF m.col_data_p.achou
                THEN pos_coluna(df_prod.columns, m.col_data_p.nome) ELSE 0,
     motivo |-> pos_coluna(df_ret.columns, m.col_motivo.nome),
     m2 |-> pos_coluna(df_ret.columns, m.col_m2.nome),
     equipe_r |-> pos_coluna(df_ret.columns, m.col_equipe_r.nome),
     forno_r |-> pos_coluna(df_ret.columns, m.col_forno_r.nome),
     data_r |-> IF m.col_data_r.achou
                THEN pos_coluna(df_ret.columns, m.col_data_r.nome) ELSE 0]

\* Tratamento Producao: the derived columns of one production row
linha_producao(linha, pos) ==
    [Equipe |-> linha[pos.equipe_p],
     metragem_real |-> limpar_numero(linha[pos.metragem]),
     Linha |-> mapear_linha(linha[pos.forno_p]),
     mes_ano |-> IF pos.data_p # 0 THEN mes_ano_de(linha[pos.data_p])
                 ELSE SEM_DATA]

tratar_producao(linhas, pos) ==
    [i \in 1..Len(linhas) |-> linha_producao(linhas[i], pos)]

\* Tratamento Retidos: the derived columns of one retained row
linha_retido(linha, pos) ==
    [Motivo |-> linha[pos.motivo],
     Equipe |-> linha[pos.equipe_r],
     Forno |-> linha[pos.forno_r],
     m2_real |-> limpar_numero(linha[pos.m2]),
     Linha |-> mapear_linha(linha[pos.forno_r]),
     mes_ano |-> IF pos.data_r # 0 THEN mes_ano_de(linha[pos.data_r])
                 ELSE SEM_DATA]

tratar_retidos(linhas, pos) ==
    [i \in 1..Len(linhas) |-> linha_retido(linhas[i], pos)]

---------------------------------------------------------------------------
(* pandas helpers                                                          *)

RECURSIVE seq_de(_)
seq_de(S) ==
    IF S = {} THEN <<>>
    ELSE LET x == CHOOSE y \in S : TRUE IN <<x>> \o seq_de(S \ {x})

\* order of two cell values of one column, as sorted() and groupby order
\* them: ints by value, everything else of the model by its text
cel_lt(a, b) ==
    IF a.k = "int" /\ b.k = "int" THEN a.n < b.n
    ELSE str_lt(str_de(a), str_de(b))

\* sorted(series.unique())
unicos_ordenados(vals) ==
    SortSeq(seq_de({vals[i] : i \in DOMAIN vals}), cel_lt)

\* rows of a frame that satisfy a test, in order
filtrar(linhas, teste(_)) == SelectSeq(linhas, teste)

\* one column of a frame
coluna(linhas, campo(_)) == [i \in DOMAIN linhas |-> campo(linhas[i])]

\* series.isin(values) / series == value on one cell: a str option matches
\* only a str cell with the same text
cel_igual(cel, texto) == cel.k = "str" /\ cel.s = texto

cel_isin(cel, textos) == cel.k = "str" /\ cel.s \in textos

\* sorted(series.astype(str).unique())
textos_ordenados(vals) ==
    SortSeq(seq_de({str_de(vals[i]) : i \in DOMAIN vals}), str_lt)

---------------------------------------------------------------------------
(* FILTROS E GRUPOS                                                        *)

SELECIONE == <<"(", "S", "e", "l", "e", "c", "i", "o", "n", "e", ")">>

\* todos_motivos_brutos = sorted(df_ret[col_motivo].astype(str).unique())
todos_motivos_brutos(df_ret) ==
    textos_ordenados(coluna(df_ret, LAMBDA r : r.Motivo))

\* df_ret[~df_ret[col_motivo].isin(motivos_excluir)] if motivos_excluir
\* else df_ret
df_ret_filtrado(df_ret, excluir) ==
    IF excluir # {}
    THEN filtrar(df_ret, LAMBDA r : ~cel_isin(r.Motivo, excluir))
    ELSE df_ret

\* motivos_disp = sorted(df_ret_filtrado[col_motivo].unique())
motivos_disp(df_filtrado) ==
    unicos_ordenados(coluna(df_filtrado, LAMBDA r : r.Motivo))

\* definir_motivo(m): the first group, in insertion order, that lists m
RECURSIVE definir_motivo(_, _)
definir_motivo(grupos, m) ==
    IF grupos = <<>> THEN m
    ELSE IF m \in Head(grupos).l THEN cel_str(Head(grupos).g)
    ELSE definir_motivo(Tail(grupos), m)

\* df_ret_filtrado['Motivo_Analise'] = ...apply(definir_motivo)
com_motivo_analise(df_filtrado, grupos) ==
    [i \in DOMAIN df_filtrado |->
        [Motivo |-> df_filtrado[i].Motivo,
         Equipe |-> df_filtrado[i].Equipe,
         Forno |-> df_filtrado[i].Forno,
         m2_real |-> df_filtrado[i].m2_real,
         Linha |-> df_filtrado[i].Linha,
         mes_ano |-> df_filtrado[i].mes_ano,
         Motivo_Analise |-> definir_motivo(grupos, df_filtrado[i].Motivo)]]

---------------------------------------------------------------------------
(* CALCULOS KPI GERAL                                                      *)

chave_lt(a, b) ==
    \/ ordem_linha(a.Linha) < ordem_linha(b.Linha)
    \/ a.Linha = b.Linha /\ cel_lt(a.Equipe, b.Equipe)

\* the group keys of a frame, sorted; rows with a null Equipe have none
chaves_linha_equipe(linhas) ==
    SortSeq(seq_de({[Linha |-> linhas[i].Linha, Equipe |-> linhas[i].Equipe] :
                    i \in {j \in DOMAIN linhas : ~isna(linhas[j].Equipe)}}),
            chave_lt)

\* df.groupby(['Linha', 'Equipe'])[qtd].sum().reset_index(): one row per
\* key, in key order
agrupar_linha_equipe(linhas, qtd(_)) ==
    Com(chaves_linha_equipe(linhas), LAMBDA chaves :
        [i \in DOMAIN chaves |->
            [Linha |-> chaves[i].Linha,
             Equipe |-> chaves[i].Equipe,
             soma |-> f_sum(coluna(
                        filtrar(linhas, LAMBDA r : r.Linha = chaves[i].Linha
                                             /\ r.Equipe = chaves[i].Equipe),
                        qtd))]])

prod_agg(df_p_agg) == agrupar_linha_equipe(df_p_agg, LAMBDA r : r.metragem_real)

ret_agg(df_r_agg) == agrupar_linha_equipe(df_r_agg, LAMBDA r : r.m2_real)

\* META_PCT / 100, META_PCT held in tenths of a percent
meta_fracao(meta_pct) == Frac(meta_pct, 1000)

\* (M2_Retido / M2_Produzido) * 100 on a float column
pct_realizado(retido, produzido) ==
    Com(f_div(retido, produzido), LAMBDA q :
        IF q.t = "fin" THEN f_mul(q, Num(100)) ELSE q)

\* the M2_Retido the left merge gives a production key, NaN filled with 0
retido_de(ragg, linha, equipe) ==
    LET par == {j \in DOMAIN ragg : ragg[j].Linha = linha
                                   /\ ragg[j].Equipe = equipe}
    IN IF par = {} THEN Zero ELSE ragg[CHOOSE j \in par : TRUE].soma

\* one row of df_final: the merged quantities and the three computed columns
linha_kpi(linha, equipe, produzido, retido, meta_pct) ==
    [Linha |-> linha,
     Equipe |-> equipe,
     M2_Produzido |-> produzido,
     M2_Retido |-> retido,
     Meta_M2 |-> f_mul(produzido, meta_fracao(meta_pct)),
     Saldo_M2 |-> f_sub(f_mul(produzido, meta_fracao(meta_pct)), retido),
     pct |-> pct_realizado(retido, produzido)]

\* pd.merge(prod_agg, ret_agg, on=['Linha','Equipe'], how='left').fillna(0)
\* followed by Meta_M2, Saldo_M2 and % Realizado
df_final(pagg, ragg, meta_pct) ==
    [i \in DOMAIN pagg |->
        Com(retido_de(ragg, pagg[i].Linha, pagg[i].Equipe), LAMBDA retido :
            linha_kpi(pagg[i].Linha, pagg[i].Equipe, pagg[i].soma, retido,
                      meta_pct))]

MEDIA_GERAL == <<"M", "\\u00e9", "d", "i", "a", " ", "G", "e", "r", "a", "l">>

\* sort_values(by=['Ordem', 'Equipe'])
ordem_equipe_lt(a, b) ==
    \/ a.Ordem < b.Ordem
    \/ a.Ordem = b.Ordem /\ str_lt(a.Equipe, b.Equipe)

\* an overall percentage that ignores the sums
pct_sem_recalculo(total_ret, total_prod) == Zero

\* pct_geral = (total_ret / total_prod * 100) if total_prod > 0 else 0
pct_geral(total_ret, total_prod) ==
    IF f_gt(total_prod, Zero)
    THEN f_mul(f_div(total_ret, total_prod), Num(100))
    ELSE Zero

\* df_filt: the rows of df_original of one line
df_filt(df_original, nome_linha) ==
    filtrar(df_original, LAMBDA r : r.Linha = nome_linha)

total_prod(filt) == f_sum(coluna(filt, LAMBDA r : r.M2_Produzido))

total_ret(filt) == f_sum(coluna(filt, LAMBDA r : r.M2_Retido))

\* row_geral from the two totals
row_geral(nome_linha, tprod, tret, meta_pct) ==
    [Linha |-> nome_linha,
     Equipe |-> MEDIA_GERAL,
     M2_Produzido |-> tprod,
     M2_Retido |-> tret,
     Meta_M2 |-> f_mul(tprod, meta_fracao(meta_pct)),
     Saldo_M2 |-> f_sub(f_mul(tprod, meta_fracao(meta_pct)), tret),
     pct |-> pct_geral(tret, tprod),
     Ordem |-> 1]

\* a team row after astype(str) and with its Ordem
linha_equipe(r) ==
    [Linha |-> r.Linha,
     Equipe |-> str_de(r.Equipe),
     M2_Produzido |-> r.M2_Produzido,
     M2_Retido |-> r.M2_Retido,
     Meta_M2 |-> r.Meta_M2,
     Saldo_M2 |-> r.Saldo_M2,
     pct |-> r.pct,
     Ordem |-> IF str_de(r.Equipe) = MEDIA_GERAL THEN 1 ELSE 0]

adicionar_linha_geral(df_original, nome_linha, meta_pct) ==
    Com(df_filt(df_original, nome_linha), LAMBDA filt :
        IF filt = <<>> THEN <<>>
        ELSE SortSeq(
                 [i \in DOMAIN filt |-> linha_equipe(filt[i])]
                 \o <<Com(total_prod(filt), LAMBDA tprod :
                        Com(total_ret(filt), LAMBDA tret :
                            row_geral(nome_linha, tprod, tret, meta_pct)))>>,
                 ordem_equipe_lt))

definir_status_meta(valor_pct, meta_pct) ==
    IF f_le(valor_pct, Frac(meta_pct, 10))
    THEN "Dentro da Meta (Verde)"
    ELSE "Fora da Meta (Vermelho)"

\* df['Status'] = df['% Realizado'].apply(definir_status_meta)
com_status(df, meta_pct) ==
    [i \in DOMAIN df |->
        [Linha |-> df[i].Linha, Equipe |-> df[i].Equipe,
         M2_Produzido |-> df[i].M2_Produzido, M2_Retido |-> df[i].M2_Retido,
         Meta_M2 |-> df[i].Meta_M2, Saldo_M2 |-> df[i].Saldo_M2,
         pct |-> df[i].pct, Ordem |-> df[i].Ordem,
         Status |-> definir_status_meta(df[i].pct, meta_pct)]]

\* the sums of m2_real by Motivo_Analise over the rows of one line
somas_por_motivo(df_m) ==
    {[Motivo_Analise |-> g,
      m2_real |-> f_sum(coluna(filtrar(df_m, LAMBDA r : r.Motivo_Analise = g),
                               LAMBDA r : r.m2_real))] :
     g \in {df_m[i].Motivo_Analise : i \in DOMAIN df_m}}

\* Top Causas de Retencao of one line: the ten largest sums (the order
\* among equal sums is left open by pandas)
top_causas(df_filtrado, linha) ==
    Com(somas_por_motivo(filtrar(df_filtrado, LAMBDA r : r.Linha = linha)),
        LAMBDA somas :
            {t \in somas :
               Cardinality({u \in somas : f_gt(u.m2_real, t.m2_real)}) < 10})

---------------------------------------------------------------------------
(* criar_grafico_evolucao_com_geral (Evolucao Mensal)                      *)

\* the function returned None: no chart is drawn
SemGrafico == [grafico |-> FALSE, linhas |-> <<>>]

\* the keys of groupby(['mes_ano', 'Equipe']): rows with a null mes_ano or
\* a null Equipe belong to no group
chaves_mes_equipe(linhas) ==
    {[mes_ano |-> linhas[i].mes_ano, Equipe |-> linhas[i].Equipe] :
        i \in {j \in DOMAIN linhas : ~isna(linhas[j].mes_ano)
                                      /\ ~isna(linhas[j].Equipe)}}

\* the keys of p_tot / r_tot: groupby(['mes_ano']) with Equipe set to
\* 'Media Geral'; rows with a null mes_ano belong to no group
chaves_mes_geral(linhas) ==
    {[mes_ano |-> linhas[i].mes_ano, Equipe |-> cel_str(MEDIA_GERAL)] :
        i \in {j \in DOMAIN linhas : ~isna(linhas[j].mes_ano)}}

\* the quantity one side of the merge holds for a key, NaN filled with 0:
\* the month total for 'Media Geral', the month and team sum otherwise
\* (a team named 'Media Geral' itself is outside the model's uploads)
soma_da_chave(linhas, chave, qtd(_)) ==
    IF chave.Equipe = cel_str(MEDIA_GERAL)
    THEN f_sum(coluna(filtrar(linhas, LAMBDA r : r.mes_ano = chave.mes_ano),
                      qtd))
    ELSE f_sum(coluna(filtrar(linhas, LAMBDA r : r.mes_ano = chave.mes_ano
                                               /\ r.Equipe = chave.Equipe),
                      qtd))

\* sort_values(by=['mes_ano', 'Ordem_Equipe', 'Equipe'])
mes_ordem_equipe_lt(a, b) ==
    \/ cel_lt(a.mes_ano, b.mes_ano)
    \/ a.mes_ano = b.mes_ano /\ a.Ordem_Equipe < b.Ordem_Equipe
    \/ a.mes_ano = b.mes_ano /\ a.Ordem_Equipe = b.Ordem_Equipe
       /\ cel_lt(a.Equipe, b.Equipe)

\* one row of the merged frame
linha_evolucao(chave, produzido, retido, meta_pct) ==
    [mes_ano |-> chave.mes_ano,
     Equipe |-> chave.Equipe,
     M2_Produzido |-> produzido,
     M2_Retido |-> retido,
     Meta_M2 |-> f_mul(produzido, meta_fracao(meta_pct)),
     Ordem_Equipe |-> IF chave.Equipe = cel_str(MEDIA_GERAL) THEN 1 ELSE 0]

\* the outer merge of concat([p_eq, p_tot]) and concat([r_eq, r_tot]) on
\* ['mes_ano', 'Equipe'], fillna(0), sorted
evolucao_de(df_p, df_r, meta_pct) ==
    SortSeq(
        seq_de({linha_evolucao(
                    chave,
                    soma_da_chave(df_p, chave, LAMBDA r : r.metragem_real),
                    soma_da_chave(df_r, chave, LAMBDA r : r.m2_real),
                    meta_pct) :
                chave \in chaves_mes_equipe(df_p) \cup chaves_mes_geral(df_p)
                          \cup chaves_mes_equipe(df_r)
                          \cup chaves_mes_geral(df_r)}),
        mes_ordem_equipe_lt)

criar_grafico_evolucao_com_geral(df_prod, df_ret, nome_linha, meta_pct) ==
    Com(filtrar(df_prod, LAMBDA r : r.Linha = nome_linha), LAMBDA df_p :
    Com(filtrar(df_ret, LAMBDA r : r.Linha = nome_linha), LAMBDA df_r :
        IF df_p = <<>> /\ df_r = <<>> THEN SemGrafico
        ELSE [grafico |-> TRUE,
              linhas |-> evolucao_de(df_p, df_r, meta_pct)]))

---------------------------------------------------------------------------
(* Analise por Motivo (tab2)                                               *)

EQUIPE == <<"E", "q", "u", "i", "p", "e">>

\* df_spec = df_ret[df_ret[col_motivo] == motivo_alvo]
df_spec(df_ret, alvo) == filtrar(df_ret, LAMBDA r : cel_igual(r.Motivo, alvo))

\* one row of spec_final: the retained sum and the count of one team
linha_spec(equipe, da_equipe) ==
    [Equipe |-> equipe,
     M2_Retido |-> f_sum(coluna(da_equipe, LAMBDA r : r.m2_real)),
     Qtd_Ocorrencias |-> Len(da_equipe)]

\* todas_equipes merged left with spec_agg and spec_count, fillna(0)
spec_final(df_prod, spec) ==
    Com(unicos_ordenados(coluna(df_prod, LAMBDA r : r.Equipe)),
        LAMBDA todas_equipes :
            [i \in DOMAIN todas_equipes |->
                Com(filtrar(spec, LAMBDA r : r.Equipe = todas_equipes[i]),
                    LAMBDA da_equipe :
                        linha_spec(todas_equipes[i], da_equipe))])

\* df_spec.groupby('Linha').size()
spec_linha(spec) ==
    Com(SortSeq(seq_de({spec[i].Linha : i \in DOMAIN spec}),
                LAMBDA a, b : ordem_linha(a) < ordem_linha(b)),
        LAMBDA linhas :
            [i \in DOMAIN linhas |->
                [Linha |-> linhas[i],
                 Qtd_Ocorrencias |->
                     Len(filtrar(spec, LAMBDA r : r.Linha = linhas[i]))]])

\* spec_count keeps the retained table's own column name, so the merge
\* on='Equipe' raises KeyError unless that column is named 'Equipe'
merge_spec_count_falha(m) == m.col_equipe_r.nome # EQUIPE

---------------------------------------------------------------------------
(* LOGICA PRINCIPAL: one run of the script, top to bottom                  *)

SemAnalise == [ativo |-> FALSE, excecao |-> FALSE,
               spec_final |-> <<>>, spec_linha |-> <<>>]

\* a run that ends at st.stop() (or at the final else) before line 230
TelaParada(etapa, mensagens) ==
    [etapa |-> etapa, mensagens |-> mensagens,
     df_prod |-> <<>>, df_ret |-> <<>>, df_ret_filtrado |-> <<>>,
     opcoes |-> <<>>, motivos_disp |-> <<>>,
     df_final |-> <<>>, df_l45_completo |-> <<>>, df_l6_completo |-> <<>>,
     top |-> <<{}, {}>>,
     evolucao |-> <<SemGrafico, SemGrafico>>,
     analise |-> SemAnalise]

\* tab2
analise_por_motivo(df_prod, df_ret, m, alvo) ==
    IF alvo = SELECIONE THEN SemAnalise
    ELSE IF merge_spec_count_falha(m)
    THEN [ativo |-> TRUE, excecao |-> TRUE,
          spec_final |-> <<>>, spec_linha |-> <<>>]
    ELSE Com(df_spec(df_ret, alvo), LAMBDA spec :
             [ativo |-> TRUE, excecao |-> FALSE,
              spec_final |-> spec_final(df_prod, spec),
              spec_linha |-> spec_linha(spec)])

\* lines 285-432: the aggregates and the three tabs
Painel(df_prod, df_ret, analisado, final, m, meta_pct, alvo) ==
    [etapa |-> "dashboard", mensagens |-> <<>>,
     df_prod |-> df_prod, df_ret |-> df_ret,
     df_ret_filtrado |-> analisado,
     opcoes |-> todos_motivos_brutos(df_ret),
     motivos_disp |-> motivos_disp(analisado),
     df_final |-> final,
     df_l45_completo |->
         com_status(adicionar_linha_geral(final, "Linha 4 e 5", meta_pct),
                    meta_pct),
     df_l6_completo |->
         com_status(adicionar_linha_geral(final, "Linha 6", meta_pct),
                    meta_pct),
     top |-> <<top_causas(analisado, "Linha 4 e 5"),
               top_causas(analisado, "Linha 6")>>,
     evolucao |->
         <<criar_grafico_evolucao_com_geral(df_prod, analisado,
                                            "Linha 4 e 5", meta_pct),
           criar_grafico_evolucao_com_geral(df_prod, analisado,
                                            "Linha 6", meta_pct)>>,
     analise |-> analise_por_motivo(df_prod, df_ret, m, alvo)]

\* lines 227-432: runs only if validation passed
Dashboard(df_prod_bruto, df_ret_bruto, m, meta_pct, alvo, excluir, grupos) ==
    Com(posicoes(df_prod_bruto, df_ret_bruto, m), LAMBDA pos :
    Com(tratar_producao(df_prod_bruto.linhas, pos), LAMBDA df_prod :
    Com(tratar_retidos(df_ret_bruto.linhas, pos), LAMBDA df_ret :
    Com(com_motivo_analise(df_ret_filtrado(df_ret, excluir), grupos),
        LAMBDA analisado :
    Com(prod_agg(df_prod), LAMBDA pagg :
    Com(ret_agg(analisado), LAMBDA ragg :
    Com(df_final(pagg, ragg, meta_pct), LAMBDA final :
        Painel(df_prod, df_ret, analisado, final, m, meta_pct, alvo))))))))

\* lines 182-225 and 434-435
Validar(df_prod, df_ret, meta_pct, alvo, excluir, grupos) ==
    Com(mapeamento(df_prod, df_ret), LAMBDA m :
        Com(erros_mapeamento(m), LAMBDA erros :
            IF erros # <<>>
            THEN TelaParada("erro_mapeamento", erros)
            ELSE Dashboard(df_prod, df_ret, m, meta_pct, alvo, excluir,
                           grupos)))

Executar(fp, fr, meta_pct, alvo, excluir, grupos) ==
    IF ~(fp.enviado /\ fr.enviado) THEN TelaParada("aguardando", <<>>)
    ELSE Com(carregar_arquivo(fp), LAMBDA df_prod :
         Com(carregar_arquivo(fr), LAMBDA df_ret :
             IF ~df_prod.ok
             THEN TelaParada("erro_leitura", <<ERRO_LEITURA_PROD>>)
             ELSE IF ~df_ret.ok
             THEN TelaParada("erro_leitura", <<ERRO_LEITURA_RET>>)
             ELSE Validar(df_prod, df_ret, meta_pct, alvo, excluir, grupos)))

---------------------------------------------------------------------------
(* The texts of the model's uploads                                        *)

c_Equipe == <<"E", "q", "u", "i", "p", "e">>
c_Forno == <<"F", "o", "r", "n", "o">>
c_Metragem == <<"M", "e", "t", "r", "a", "g", "e", "m">>
c_Data == <<"D", "a", "t", "a">>
c_Motivo == <<"M", "o", "t", "i", "v", "o">>
c_M2 == <<"M", "2">>
c_Turno == <<"T", "u", "r", "n", "o">>
c_Produto == <<"P", "r", "o", "d", "u", "t", "o">>
c_Maq == <<"M", "a", "q">>
c_Defeito == <<"D", "e", "f", "e", "i", "t", "o">>
c_Quant == <<"Q", "u", "a", "n", "t">>
c_Obs == <<"O", "b", "s">>
t_A == <<"A">>
t_B == <<"B">>
t_Bolha == <<"B", "o", "l", "h", "a">>
t_Trinca == <<"T", "r", "i", "n", "c", "a">>
t_Forno10 == <<"F", "o", "r", "n", "o", " ", "1", "0">>
t_abc == <<"a", "b", "c">>
t_1234_56 == <<"1", ".", "2", "3", "4", ",", "5", "6">>
t_15_03_2024 == <<"1", "5", "/", "0", "3", "/", "2", "0", "2", "4">>
t_01_04_2024 == <<"0", "1", "/", "0", "4", "/", "2", "0", "2", "4">>

---------------------------------------------------------------------------
(* The uploads of Spec: one file per way a file can fail or pass           *)

\* production tables
ProdCompleta ==
    DataFrame(<<c_Equipe, c_Forno, c_Metragem, c_Data>>,
              <<<<cel_str(t_A), cel_str(t_Forno10), cel_str(t_1234_56),
                  cel_str(t_15_03_2024)>>,
                <<cel_str(t_B), cel_int(12), cel_int(0), cel_nan>>>>)
ProdSinonimos ==
    DataFrame(<<c_Turno, c_Maq, c_Produto>>,
              <<<<cel_str(t_A), cel_int(10), cel_int(2)>>>>)
ProdSemForno ==
    DataFrame(<<c_Turno, c_Produto>>, <<<<cel_str(t_A), cel_int(2)>>>>)
ProdSoData ==
    DataFrame(<<c_Data>>, <<<<cel_str(t_15_03_2024)>>>>)

ArquivosProducao ==
    {ArquivoExcel(ProdCompleta), ArquivoCsv(FALHA, ProdSinonimos),
     ArquivoExcel(ProdSemForno), ArquivoCsv(ProdSoData, FALHA),
     ArquivoExcel(FALHA), ArquivoCsv(FALHA, FALHA)}

\* retained-material tables
RetCompleta ==
    DataFrame(<<c_Motivo, c_M2, c_Equipe, c_Forno, c_Data>>,
              <<<<cel_str(t_Bolha), cel_int(5), cel_str(t_A),
                  cel_str(t_Forno10), cel_str(t_15_03_2024)>>,
                <<cel_str(t_Trinca), cel_str(t_abc), cel_str(t_B),
                  cel_int(12), cel_nan>>>>)
RetSinonimos ==
    DataFrame(<<c_Defeito, c_Quant, c_Turno, c_Maq>>,
              <<<<cel_str(t_Bolha), cel_int(1), cel_str(t_A), cel_int(10)>>>>)
RetSoMotivo ==
    DataFrame(<<c_Motivo, c_Data>>,
              <<<<cel_str(t_Bolha), cel_str(t_15_03_2024)>>>>)
RetSoObs ==
    DataFrame(<<c_Obs>>, <<<<cel_str(t_abc)>>>>)

ArquivosRetidos ==
    {ArquivoExcel(RetCompleta), ArquivoCsv(RetSinonimos, FALHA),
     ArquivoExcel(RetSoMotivo), ArquivoCsv(FALHA, RetSoObs),
     ArquivoExcel(FALHA)}

-------------------------------------------------------------------------------------------------------------------------------------------------
(* The uploads of SpecAgregacao and SpecFiltros: every pair of tables with *)
(* the plain headers and rows drawn from the cells below                   *)

EquipesModelo == {cel_str(t_A), cel_str(t_B)}
FornosModelo == {cel_str(t_Forno10)}
MetragensModelo == {cel_int(0), cel_int(1), cel_int(2)}
MotivosModelo == {cel_str(t_Bolha), cel_str(t_Trinca)}
M2Modelo == {cel_int(1)}

LinhasProducao ==
    {<<e, f, q>> : e \in EquipesModelo, f \in FornosModelo,
                   q \in MetragensModelo}
LinhasRetidos ==
    {<<mo, q, e, f>> : mo \in MotivosModelo, q \in M2Modelo,
                       e \in EquipesModelo, f \in FornosModelo}

\* the tables of at most n rows
Tabelas(linhas, n) == UNION {[1..k -> linhas] : k \in 0..n}

TabelasProducao ==
    {DataFrame(<<c_Equipe, c_Forno, c_Metragem>>, lp) :
        lp \in Tabelas(LinhasProducao, MaxLinhasProd)}
TabelasRetidos ==
    {DataFrame(<<c_Motivo, c_M2, c_Equipe, c_Forno>>, lr) :
        lr \in Tabelas(LinhasRetidos, MaxLinhasRet)}

\* the uploads of SpecEvolucao: tables with a date column whose cells are
\* two months, an empty cell and a text that is no date
DatasModelo == {cel_str(t_15_03_2024), cel_str(t_01_04_2024), cel_nan,
                cel_str(t_abc)}

LinhasProducaoDatadas ==
    {<<e, f, cel_int(1), d>> : e \in EquipesModelo, f \in FornosModelo,
                               d \in DatasModelo}
LinhasRetidosDatadas ==
    {<<mo, q, e, f, d>> : mo \in MotivosModelo, q \in M2Modelo,
                          e \in EquipesModelo, f \in FornosModelo,
                          d \in DatasModelo}

TabelasProducaoDatadas ==
    {DataFrame(<<c_Equipe, c_Forno, c_Metragem, c_Data>>, lp) :
        lp \in Tabelas(LinhasProducaoDatadas, MaxLinhasProd)}
TabelasRetidosDatadas ==
    {DataFrame(<<c_Motivo, c_M2, c_Equipe, c_Forno, c_Data>>, lr) :
        lr \in Tabelas(LinhasRetidosDatadas, MaxLinhasRet)}

\* the tables handed to identificar_coluna in SpecColuna: column names of
\* at most MaxNome characters, at most MaxColunas of them, and at most
\* MaxKeywords keywords
LETRAS_COLUNA == {"a", "A", " "}
LETRAS_KEYWORD == {"a"}

Textos(letras, n) == UNION {[1..k -> letras] : k \in 1..n}

ListasDeColunas ==
    UNION {[1..k -> Textos(LETRAS_COLUNA, MaxNome)] : k \in 0..MaxColunas}
ListasDeKeywords ==
    UNION {[1..k -> Textos(LETRAS_KEYWORD, MaxNome)] : k \in 0..MaxKeywords}

-----
(* Widgets                                                                 *)

META_MIN == 0
META_MAX == 50
META_PADRAO == 5
\* the slider positions the model moves between
Metas == {META_PADRAO, META_MAX}

\* the names the operator types into "Nome do Grupo"
NomesDeGrupo == {<<"G", DIGITOS[i + 1]>> : i \in 1..MaxGrupos}

SemAcao == [op |-> "inicio", nome |-> <<>>, l |-> {}, rerun |-> FALSE]
Acao(op) == [op |-> op, nome |-> <<>>, l |-> {}, rerun |-> FALSE]

SemConsulta == [columns |-> <<>>, keywords |-> <<>>, feito |-> FALSE,
                retorno |-> None]

\* a widget keeps its value from one run to the next only if both runs
\* render it with the same options
mantem_widgets(antes, depois) ==
    antes.etapa = "dashboard" /\ depois.etapa = "dashboard"
    /\ antes.opcoes = depois.opcoes

---------------------------------------------------------------------------
(* Operator interactions: each is the widget change plus the script run    *)
(* (and the st.rerun() run) it causes                                      *)

\* a file uploader changes: widgets whose options change start afresh
Enviar(fp, fr) ==
    LET limpa == Executar(fp, fr, META_PCT, SELECIONE, {}, grupos_dict)
        mantem == mantem_widgets(tela, limpa)
    IN /\ file_prod' = fp
       /\ file_ret' = fr
       /\ motivo_alvo' = IF mantem THEN motivo_alvo ELSE SELECIONE
       /\ motivos_excluir' = IF mantem THEN motivos_excluir ELSE {}
       /\ tela' = Executar(fp, fr, META_PCT, motivo_alvo', motivos_excluir',
                           grupos_dict)
       /\ ultima_acao' = Acao("enviar")
       /\ UNCHANGED <<META_PCT, grupos_dict, consulta>>

EnviarProducao ==
    \E f \in ArquivosProducao \cup {SemArquivo} :
        f # file_prod /\ Enviar(f, file_ret)

EnviarRetidos ==
    \E f \in ArquivosRetidos \cup {SemArquivo} :
        f # file_ret /\ Enviar(file_prod, f)

\* the slider moves
DefinirMeta ==
    \E p \in Metas :
        /\ p # META_PCT
        /\ META_PCT' = p
        /\ tela' = Executar(file_prod, file_ret, p, motivo_alvo,
                            motivos_excluir, grupos_dict)
        /\ ultima_acao' = Acao("meta")
        /\ UNCHANGED <<file_prod, file_ret, motivo_alvo, motivos_excluir,
                       grupos_dict, consulta>>

\* the selectbox "Escolha o Motivo" changes
EscolherMotivo ==
    \E a \in {SELECIONE} \cup RangeOf(tela.opcoes) :
        /\ tela.etapa = "dashboard"
        /\ a # motivo_alvo
        /\ motivo_alvo' = a
        /\ tela' = Executar(file_prod, file_ret, META_PCT, a,
                            motivos_excluir, grupos_dict)
        /\ ultima_acao' = Acao("motivo")
        /\ UNCHANGED <<file_prod, file_ret, META_PCT, motivos_excluir,
                       grupos_dict, consulta>>

\* the multiselect "Excluir Motivos" changes
ExcluirMotivos ==
    \E S \in SUBSET RangeOf(tela.opcoes) :
        /\ tela.etapa = "dashboard"
        /\ S # motivos_excluir
        /\ motivos_excluir' = S
        /\ tela' = Executar(file_prod, file_ret, META_PCT, motivo_alvo, S,
                            grupos_dict)
        /\ ultima_acao' = Acao("excluir")
        /\ UNCHANGED <<file_prod, file_ret, META_PCT, motivo_alvo,
                       grupos_dict, consulta>>

\* a create that asks for only one of the two inputs
salvar_com_um_so(selecao, nome) == selecao # {} \/ nome # <<>>

\* `st.button("Salvar Grupo") and selecao and nome`, the button pressed
salvar_aceito(selecao, nome) == selecao # {} /\ nome # <<>>

\* st.session_state.grupos_dict[nome] = selecao: an existing key keeps its
\* place, a new key goes last
atribuir(grupos, nome, selecao) ==
    IF \E i \in 1..Len(grupos) : grupos[i].g = nome
    THEN [i \in 1..Len(grupos) |->
            IF grupos[i].g = nome THEN [g |-> nome, l |-> selecao]
            ELSE grupos[i]]
    ELSE Append(grupos, [g |-> nome, l |-> selecao])

\* del st.session_state.grupos_dict[r]
apagar(grupos, r) == SelectSeq(grupos, LAMBDA x : x.g # r)

\* "Salvar Grupo" is pressed with `selecao` and `nome` in the two inputs
SalvarGrupo ==
    \E nome \in NomesDeGrupo \cup {<<>>},
       selecao \in SUBSET RangeOf(tela.motivos_disp) :
        /\ tela.etapa = "dashboard"
        /\ grupos_dict' = IF salvar_aceito(selecao, nome)
                          THEN atribuir(grupos_dict, nome, selecao)
                          ELSE grupos_dict
        /\ tela' = Executar(file_prod, file_ret, META_PCT, motivo_alvo,
                            motivos_excluir, grupos_dict')
        /\ ultima_acao' = [op |-> "salvar", nome |-> nome, l |-> selecao,
                           rerun |-> salvar_aceito(selecao, nome)]
        /\ UNCHANGED <<file_prod, file_ret, META_PCT, motivo_alvo,
                       motivos_excluir, consulta>>

\* "Remover <g>" is pressed
RemoverGrupo ==
    \E i \in 1..Len(grupos_dict) :
        /\ tela.etapa = "dashboard"
        /\ grupos_dict' = apagar(grupos_dict, grupos_dict[i].g)
        /\ tela' = Executar(file_prod, file_ret, META_PCT, motivo_alvo,
                            motivos_excluir, grupos_dict')
        /\ ultima_acao' = [op |-> "remover", nome |-> grupos_dict[i].g,
                           l |-> grupos_dict[i].l, rerun |-> TRUE]
        /\ UNCHANGED <<file_prod, file_ret, META_PCT, motivo_alvo,
                       motivos_excluir, consulta>>

---------------------------------------------------------------------------
(* Spec: the dashboard session, from the empty page                        *)

Init ==
    /\ file_prod = SemArquivo
    /\ file_ret = SemArquivo
    /\ META_PCT = META_PADRAO
    /\ motivo_alvo = SELECIONE
    /\ motivos_excluir = {}
    /\ grupos_dict = <<>>
    /\ tela = Executar(SemArquivo, SemArquivo, META_PADRAO, SELECIONE, {}, <<>>)
    /\ ultima_acao = SemAcao
    /\ consulta = SemConsulta

Next ==
    \/ EnviarProducao
    \/ EnviarRetidos
    \/ DefinirMeta
    \/ EscolherMotivo
    \/ ExcluirMotivos
    \/ SalvarGrupo
    \/ RemoverGrupo

Spec == Init /\ [][Next]_vars

-------------------------------------------------------------------------------------------------------------------------------------------------
(* SpecColuna: identificar_coluna applied to every small table             *)

Identificar ==
    /\ ~consulta.feito
    /\ consulta' = [consulta EXCEPT
                       !.feito = TRUE,
                       !.retorno = identificar_coluna(consulta.columns,
                                                      consulta.keywords)]
    /\ UNCHANGED <<file_prod, file_ret, META_PCT, motivo_alvo,
                   motivos_excluir, grupos_dict, tela, ultima_acao>>

InitColuna ==
    /\ file_prod = SemArquivo
    /\ file_ret = SemArquivo
    /\ META_PCT = META_PADRAO
    /\ motivo_alvo = SELECIONE
    /\ motivos_excluir = {}
    /\ grupos_dict = <<>>
    /\ tela = TelaParada("aguardando", <<>>)
    /\ ultima_acao = SemAcao
    /\ \E columns \in ListasDeColunas, keywords \in ListasDeKeywords :
           consulta = [columns |-> columns, keywords |-> keywords,
                       feito |-> FALSE, retorno |-> None]

NextColuna == Identificar

SpecColuna == InitColuna /\ [][NextColuna]_vars

---------------------------------------------------------------------------
(* SpecLinha: mapear_linha applied to every small identifier               *)

\* the identifiers: texts of at most MaxIdentificador characters, the int
\* cells around the four furnace numbers and the empty cell
LETRAS_IDENTIFICADOR == {"0", "1", "2", "3", "F"}
InteirosModelo == {-11, 0, 9, 10, 11, 12, 13, 14, 110}
Identificadores ==
    {cel_str(t) : t \in Textos(LETRAS_IDENTIFICADOR, MaxIdentificador)}
    \cup {cel_str(<<>>), cel_nan}
    \cup {cel_int(n) : n \in InteirosModelo}

Classificar ==
    /\ ~consulta.feito
    /\ consulta' = [consulta EXCEPT
                       !.feito = TRUE,
                       !.retorno = mapear_linha(consulta.forno)]
    /\ UNCHANGED <<file_prod, file_ret, META_PCT, motivo_alvo,
                   motivos_excluir, grupos_dict, tela, ultima_acao>>

InitLinha ==
    /\ file_prod = SemArquivo
    /\ file_ret = SemArquivo
    /\ META_PCT = META_PADRAO
    /\ motivo_alvo = SELECIONE
    /\ motivos_excluir = {}
    /\ grupos_dict = <<>>
    /\ tela = TelaParada("aguardando", <<>>)
    /\ ultima_acao = SemAcao
    /\ \E forno \in Identificadores :
           consulta = [forno |-> forno, feito |-> FALSE, retorno |-> ""]

NextLinha == Classificar

SpecLinha == InitLinha /\ [][NextLinha]_vars

---------------------------------------------------------------------------
(* SpecCarga: the two uploads, from the empty page to the first dashboard  *)

NextCarga ==
    \/ EnviarProducao
    \/ EnviarRetidos
    \/ DefinirMeta

SpecCarga == Init /\ [][NextCarga]_vars

---------------------------------------------------------------------------
(* SpecAgregacao: the summary over every small pair of valid tables. The   *)
(* production table is on the page; the retained table is uploaded once.   *)

InitAgregacao ==
    \E df \in TabelasProducao :
        /\ file_prod = ArquivoExcel(df)
        /\ file_ret = SemArquivo
        /\ META_PCT = META_PADRAO
        /\ motivo_alvo = SELECIONE
        /\ motivos_excluir = {}
        /\ grupos_dict = <<>>
        /\ tela = Executar(file_prod, SemArquivo, META_PADRAO, SELECIONE, {},
                           <<>>)
        /\ ultima_acao = SemAcao
        /\ consulta = SemConsulta

\* the retained table arrives: the first run that reaches the dashboard
EnviarTabelaRetidos ==
    \E df \in TabelasRetidos :
        ~file_ret.enviado /\ Enviar(file_prod, ArquivoExcel(df))

NextAgregacao ==
    \/ EnviarTabelaRetidos
    \/ DefinirMeta

SpecAgregacao == InitAgregacao /\ [][NextAgregacao]_vars

---------------------------------------------------------------------------
(* SpecFiltros: the exclusion filter and the drill-down over the same      *)
(* pairs of tables                                                         *)

NextFiltros ==
    \/ EnviarTabelaRetidos
    \/ EscolherMotivo
    \/ ExcluirMotivos

SpecFiltros == InitAgregacao /\ [][NextFiltros]_vars

---------------------------------------------------------------------------
(* SpecEvolucao: the monthly evolution over pairs of tables with and       *)
(* without a date column                                                   *)

InitEvolucao ==
    \E df \in TabelasProducaoDatadas \cup TabelasProducao :
        /\ file_prod = ArquivoExcel(df)
        /\ file_ret = SemArquivo
        /\ META_PCT = META_PADRAO
        /\ motivo_alvo = SELECIONE
        /\ motivos_excluir = {}
        /\ grupos_dict = <<>>
        /\ tela = Executar(file_prod, SemArquivo, META_PADRAO, SELECIONE, {},
                           <<>>)
        /\ ultima_acao = SemAcao
        /\ consulta = SemConsulta

\* the retained table, with or without its date column, arrives
EnviarTabelaRetidosDatada ==
    \E df \in TabelasRetidosDatadas \cup TabelasRetidos :
        ~file_ret.enviado /\ Enviar(file_prod, ArquivoExcel(df))

NextEvolucao ==
    \/ EnviarTabelaRetidosDatada
    \/ ExcluirMotivos

SpecEvolucao == InitEvolucao /\ [][NextEvolucao]_vars

---------------------------------------------------------------------------
(* SpecGrupos: the grouping overlay over one loaded pair of tables         *)

ProdGrupos ==
    DataFrame(<<c_Equipe, c_Forno, c_Metragem>>,
              <<<<cel_str(t_A), cel_str(t_Forno10), cel_int(2)>>>>)
RetGrupos ==
    DataFrame(<<c_Motivo, c_M2, c_Equipe, c_Forno>>,
              <<<<cel_str(t_Bolha), cel_int(1), cel_str(t_A),
                  cel_str(t_Forno10)>>,
                <<cel_str(t_Trinca), cel_int(1), cel_str(t_A),
                  cel_str(t_Forno10)>>>>)

InitGrupos ==
    /\ file_prod = ArquivoExcel(ProdGrupos)
    /\ file_ret = ArquivoExcel(RetGrupos)
    /\ META_PCT = META_PADRAO
    /\ motivo_alvo = SELECIONE
    /\ motivos_excluir = {}
    /\ grupos_dict = <<>>
    /\ tela = Executar(file_prod, file_ret, META_PADRAO, SELECIONE, {}, <<>>)
    /\ ultima_acao = SemAcao
    /\ consulta = SemConsulta

NextGrupos ==
    \/ SalvarGrupo
    \/ RemoverGrupo

SpecGrupos == InitGrupos /\ [][NextGrupos]_vars

---------------------------------------------------------------------------
(* Properties                                                              *)

\* the smallest element of a non-empty set of integers
minimo(S) == CHOOSE x \in S : \A y \in S : x <= y

\* the keywords of the call that are contained in some normalised name
keywords_com_match(columns, keywords) ==
    {k \in 1..Len(keywords) :
        \E i \in 1..Len(columns) :
            contem(keywords[k], colunas_df(columns)[i])}

\* the columns whose normalised name contains the keyword
colunas_com(columns, kw) ==
    {i \in 1..Len(columns) : contem(kw, colunas_df(columns)[i])}

\* C1: identificar_coluna returns the original name of the first column,
\* in the table's column order, whose lower-cased and trimmed name contains
\* the first keyword of the list that is contained in any column name, and
\* returns None exactly when no keyword is contained in any column name.
C1_PrimeiraColunaDaPrimeiraKeyword ==
    consulta.feito =>
        LET ks == keywords_com_match(consulta.columns, consulta.keywords)
        IN IF ks = {} THEN consulta.retorno = None
           ELSE consulta.retorno =
                  Coluna(consulta.columns[
                      minimo(colunas_com(consulta.columns,
                                         consulta.keywords[minimo(ks)]))])

\* the rows displayed in the two line summaries
linhas_resumo ==
    RangeOf(tela.df_l45_completo) \cup RangeOf(tela.df_l6_completo)

\* C2: in the summary, every row whose produced quantity is 0, team row
\* or overall row, has percentage-realized 0, never NaN or infinity.
C2_PercentualZeroSemProducao ==
    tela.etapa = "dashboard" =>
        \A r \in linhas_resumo :
            r.M2_Produzido = Zero => r.pct = Zero

\* the sum of one quantity over the rows of a frame that pass a test
soma_se(linhas, teste(_), qtd(_)) == f_sum(coluna(filtrar(linhas, teste), qtd))

\* the retained rows the exclusion filter lets through
nao_excluida(r) == ~cel_isin(r.Motivo, motivos_excluir)

\* C3: no retained row whose raw reason is in the exclusion set contributes
\* to a downstream aggregate: not to the line/team summary or the top
\* causes, and not to the drill-down (per-team retained quantity, per-team
\* and per-line occurrence counts), also when the excluded reason is the
\* one selected for drill-down.
C3_ExcluidosForaDeTodosOsAgregados ==
    tela.etapa = "dashboard" =>
        /\ \A r \in RangeOf(tela.df_final) :
              r.M2_Retido =
                soma_se(tela.df_ret,
                        LAMBDA x : x.Linha = r.Linha /\ x.Equipe = r.Equipe
                                   /\ nao_excluida(x),
                        LAMBDA x : x.m2_real)
        /\ \A c \in tela.top[1] \cup tela.top[2] :
              ~cel_isin(c.Motivo_Analise, motivos_excluir)
        /\ (tela.analise.ativo /\ ~tela.analise.excecao) =>
              /\ \A r \in RangeOf(tela.analise.spec_final) :
                    /\ r.M2_Retido =
                         soma_se(tela.df_ret,
                                 LAMBDA x : x.Equipe = r.Equipe
                                            /\ cel_igual(x.Motivo, motivo_alvo)
                                            /\ nao_excluida(x),
                                 LAMBDA x : x.m2_real)
                    /\ r.Qtd_Ocorrencias =
                         Len(filtrar(tela.df_ret,
                                     LAMBDA x : x.Equipe = r.Equipe
                                                /\ cel_igual(x.Motivo, motivo_alvo)
                                                /\ nao_excluida(x)))
              /\ \A r \in RangeOf(tela.analise.spec_linha) :
                    r.Qtd_Ocorrencias =
                      Len(filtrar(tela.df_ret,
                                  LAMBDA x : x.Linha = r.Linha
                                             /\ cel_igual(x.Motivo, motivo_alvo)
                                             /\ nao_excluida(x)))

\* the retained total of a summary: the sum over the team rows of the two
\* displayed lines
total_retido_resumo(t) ==
    soma_se(t.df_l45_completo \o t.df_l6_completo,
            LAMBDA r : r.Ordem = 0, LAMBDA r : r.M2_Retido)

\* the summed quantity of the retained rows whose raw reason is excluded
quantidade_excluida ==
    soma_se(tela.df_ret, LAMBDA r : ~nao_excluida(r), LAMBDA r : r.m2_real)

\* C10: the retained total of the summary is the retained total the same
\* uploads give with no exclusion, less the summed quantity of the retained
\* rows whose raw reason is excluded.
C10_TotalDiminuiPeloExcluido ==
    tela.etapa = "dashboard" =>
        total_retido_resumo(tela) =
          f_sub(total_retido_resumo(Executar(file_prod, file_ret, META_PCT,
                                             motivo_alvo, {}, grupos_dict)),
                quantidade_excluida)

\* the overall row of one line summary is recomputed from the sums of the
\* line's team rows
media_geral_confere(df) ==
    LET produzido == soma_se(df, LAMBDA r : r.Ordem = 0,
                             LAMBDA r : r.M2_Produzido)
        retido == soma_se(df, LAMBDA r : r.Ordem = 0, LAMBDA r : r.M2_Retido)
        meta == f_mul(produzido, Frac(META_PCT, 1000))
    IN /\ Cardinality({i \in DOMAIN df : df[i].Ordem = 1}) = 1
       /\ \A i \in DOMAIN df :
             df[i].Ordem = 1 =>
                /\ df[i].Equipe = MEDIA_GERAL
                /\ df[i].M2_Produzido = produzido
                /\ df[i].M2_Retido = retido
                /\ df[i].Meta_M2 = meta
                /\ df[i].Saldo_M2 = f_sub(meta, retido)
                /\ df[i].pct = IF produzido.n > 0
                               THEN Frac(retido.n * produzido.d * 100,
                                         retido.d * produzido.n)
                               ELSE Zero

\* C9: for every line present in the summary, the overall row's produced
\* and retained quantities are the sums of the line's team rows, its target
\* is produced x target% / 100, its surplus is target - retained, and its
\* percentage-realized is retained / produced x 100 of those sums.
C9_MediaGeralRecalculada ==
    tela.etapa = "dashboard" =>
        /\ (\E r \in RangeOf(tela.df_final) : r.Linha = "Linha 4 e 5")
              => media_geral_confere(tela.df_l45_completo)
        /\ (\E r \in RangeOf(tela.df_final) : r.Linha = "Linha 6")
              => media_geral_confere(tela.df_l6_completo)

\* a line whose two teams have different percentages, so that the average
\* of the team percentages is not the percentage of the sums
C9_Witness ==
    /\ tela.etapa = "dashboard"
    /\ Len(tela.df_l45_completo) = 3
    /\ LET a == tela.df_l45_completo[1]
           b == tela.df_l45_completo[2]
           g == tela.df_l45_completo[3]
       IN /\ a.pct.t = "fin" /\ b.pct.t = "fin" /\ g.Ordem = 1
          /\ g.M2_Retido.n > 0
          /\ g.pct # f_div(f_add(a.pct, b.pct), Num(2))

\* the required logical fields, production first, with their messages
CAMPOS_OBRIGATORIOS ==
    <<[campo |-> "col_equipe_p",
       msg |-> "Arquivo Producao: Coluna de 'Equipe' nao encontrada."],
      [campo |-> "col_forno_p",
       msg |-> "Arquivo Producao: Coluna de 'Forno' ou 'Linha' nao encontrada."],
      [campo |-> "col_metragem",
       msg |-> "Arquivo Producao: Coluna de 'Metragem' ou 'Producao' nao encontrada."],
      [campo |-> "col_motivo",
       msg |-> "Arquivo Retidos: Coluna de 'Motivo' nao encontrada."],
      [campo |-> "col_m2",
       msg |-> "Arquivo Retidos: Coluna de 'M2' ou 'Metragem' nao encontrada."],
      [campo |-> "col_equipe_r",
       msg |-> "Arquivo Retidos: Coluna de 'Equipe' nao encontrada."],
      [campo |-> "col_forno_r",
       msg |-> "Arquivo Retidos: Coluna de 'Forno' ou 'Linha' nao encontrada."]>>

\* the required fields a pair of tables leaves unresolved
campos_faltando(df_prod, df_ret) ==
    SelectSeq(CAMPOS_OBRIGATORIOS,
              LAMBDA c : ~mapeamento(df_prod, df_ret)[c.campo].achou)

\* the run derived no canonical column and computed no aggregate
nada_processado ==
    /\ tela.df_prod = <<>> /\ tela.df_ret = <<>>
    /\ tela.df_ret_filtrado = <<>> /\ tela.df_final = <<>>
    /\ tela.df_l45_completo = <<>> /\ tela.df_l6_completo = <<>>
    /\ tela.top = <<{}, {}>> /\ ~tela.analise.ativo

\* both files are uploaded and readable
ambos_lidos ==
    /\ file_prod.enviado /\ file_ret.enviado
    /\ carregar_arquivo(file_prod).ok /\ carregar_arquivo(file_ret).ok

\* C4: when a required field is unresolved in either table, the report
\* holds one message for every missing required field of both tables,
\* production first and in field order, and the run halts before anything
\* is derived or aggregated; when only an optional date column is missing
\* there is no message and the run does not halt.
C4_TodosOsErrosDeMapeamento ==
    ambos_lidos =>
        LET faltando == campos_faltando(carregar_arquivo(file_prod),
                                        carregar_arquivo(file_ret))
        IN IF faltando # <<>>
           THEN /\ tela.etapa = "erro_mapeamento"
                /\ tela.mensagens =
                     [i \in 1..Len(faltando) |-> faltando[i].msg]
                /\ nada_processado
           ELSE /\ tela.etapa = "dashboard"
                /\ tela.mensagens = <<>>

\* a report with messages of both tables, the production file leaving its
\* line column out and the retained file all but its reason column
C4_Witness ==
    /\ tela.etapa = "erro_mapeamento"
    /\ Len(tela.mensagens) = 4
    /\ tela.mensagens[1] =
         "Arquivo Producao: Coluna de 'Forno' ou 'Linha' nao encontrada."
    /\ tela.mensagens[4] =
         "Arquivo Retidos: Coluna de 'Forno' ou 'Linha' nao encontrada."

\* C5: a file read failure is reported for each unreadable file: the
\* production error when the production file is unreadable, the retained
\* error when the retained file is unreadable, both when both are, and in
\* each case the run halts before column resolution.
C5_ErroDeLeituraPorArquivo ==
    (file_prod.enviado /\ file_ret.enviado) =>
        /\ ~carregar_arquivo(file_prod).ok =>
              /\ tela.etapa = "erro_leitura"
              /\ ERRO_LEITURA_PROD \in RangeOf(tela.mensagens)
              /\ nada_processado
        /\ ~carregar_arquivo(file_ret).ok =>
              /\ tela.etapa = "erro_leitura"
              /\ ERRO_LEITURA_RET \in RangeOf(tela.mensagens)
              /\ nada_processado

\* C6: every raw reason is a member of at most one active group.
C6_MotivoEmUmSoGrupo ==
    \A i, j \in 1..Len(grupos_dict) :
        i # j => grupos_dict[i].l \cap grupos_dict[j].l = {}

\* C7: after a group is removed its name is no longer a key of the overlay
\* and every retained row whose raw reason was a member of it has
\* Motivo_Analise equal to its raw reason again.
C7_RemocaoDevolveMotivoBruto ==
    (ultima_acao.op = "remover" /\ tela.etapa = "dashboard") =>
        /\ \A i \in 1..Len(grupos_dict) : grupos_dict[i].g # ultima_acao.nome
        /\ \A r \in RangeOf(tela.df_ret_filtrado) :
              r.Motivo \in ultima_acao.l => r.Motivo_Analise = r.Motivo

\* C8: a create with an empty name or an empty selection leaves the
\* overlay as it was and triggers no rerun; only a create with a non-empty
\* name and a non-empty selection changes the overlay.
C8_CriacaoRejeitadaNaoAltera ==
    [][(ultima_acao'.op = "salvar"
        /\ (ultima_acao'.nome = <<>> \/ ultima_acao'.l = {}))
       => (grupos_dict' = grupos_dict /\ tela' = tela
           /\ ~ultima_acao'.rerun)]_vars

\* a create with an empty name and a non-empty selection, pressed while
\* the overlay holds a group
C8_Witness ==
    /\ ultima_acao.op = "salvar"
    /\ ultima_acao.nome = <<>>
    /\ ultima_acao.l # {}
    /\ grupos_dict # <<>>

\* the period a row belongs to: its month, or 'Sem Data' when its date
\* cell is missing or unparsable
periodo(r) == IF isna(r.mes_ano) THEN SEM_DATA ELSE r.mes_ano

\* the rows of a frame of one line, period and team
do_periodo_e_equipe(linhas, linha, per, equipe) ==
    filtrar(linhas, LAMBDA x : x.Linha = linha /\ periodo(x) = per
                               /\ x.Equipe = equipe)

\* the two lines of the monthly evolution, with their position in `tela`
LINHAS_EVOLUCAO == <<"Linha 4 e 5", "Linha 6">>

\* C11: a row whose date cell is missing or unparsable is assigned to the
\* 'Sem Data' period, the period of a table with no date column, and
\* appears with its quantity in the monthly time series of its line.
C11_SemDataNaEvolucao ==
    tela.etapa = "dashboard" =>
        \A k \in 1..2 :
            /\ \A r \in RangeOf(tela.df_prod) :
                  r.Linha = LINHAS_EVOLUCAO[k] =>
                    \E e \in RangeOf(tela.evolucao[k].linhas) :
                        /\ e.mes_ano = periodo(r) /\ e.Equipe = r.Equipe
                        /\ e.M2_Produzido =
                             f_sum(coluna(do_periodo_e_equipe(
                                            tela.df_prod, r.Linha, periodo(r),
                                            r.Equipe),
                                          LAMBDA x : x.metragem_real))
            /\ \A r \in RangeOf(tela.df_ret_filtrado) :
                  r.Linha = LINHAS_EVOLUCAO[k] =>
                    \E e \in RangeOf(tela.evolucao[k].linhas) :
                        /\ e.mes_ano = periodo(r) /\ e.Equipe = r.Equipe
                        /\ e.M2_Retido =
                             f_sum(coluna(do_periodo_e_equipe(
                                            tela.df_ret_filtrado, r.Linha,
                                            periodo(r), r.Equipe),
                                          LAMBDA x : x.m2_real))

\* the positions of the first run of decimal digits of a text
primeira_sequencia(t) ==
    LET digitos == {i \in 1..Len(t) : t[i] \in RangeOf(DIGITOS)}
    IN {i \in digitos :
          \A j \in minimo(digitos)..i : j \in digitos}

\* the integer value of the digits at a non-empty interval of positions
RECURSIVE valor_dos_digitos(_, _)
valor_dos_digitos(t, ps) ==
    IF ps = {} THEN 0
    ELSE LET u == CHOOSE p \in ps : \A q \in ps : q <= p
         IN 10 * valor_dos_digitos(t, ps \ {u}) + (IndexIn(t[u], DIGITOS) - 1)

\* the category the table gives the stringified identifier
categoria_esperada(t) ==
    IF \A i \in 1..Len(t) : t[i] \notin RangeOf(DIGITOS) THEN "Outros"
    ELSE LET v == valor_dos_digitos(t, primeira_sequencia(t))
         IN IF v \in {10, 11} THEN "Linha 4 e 5"
            ELSE IF v \in {12, 13} THEN "Linha 6"
            ELSE "Outros"

\* C12: mapear_linha returns, for any text, empty or numeric identifier,
\* exactly one of 'Linha 4 e 5', 'Linha 6', 'Outros', decided by the value
\* of the first run of decimal digits of the stringified identifier: 10 or
\* 11, 12 or 13, anything else or no digits; later runs have no influence.
C12_PrimeiraSequenciaDeDigitos ==
    consulta.feito =>
        /\ consulta.retorno \in {"Linha 4 e 5", "Linha 6", "Outros"}
        /\ consulta.retorno = categoria_esperada(str_de(consulta.forno))
        /\ consulta.forno.k = "nan" => consulta.retorno = "Outros"
        /\ consulta.forno.k = "int" =>
              consulta.retorno =
                IF abs(consulta.forno.n) \in {10, 11} THEN "Linha 4 e 5"
                ELSE IF abs(consulta.forno.n) \in {12, 13} THEN "Linha 6"
                ELSE "Outros"

\* an identifier whose first run is 11 and whose later run is 3
C12_Witness ==
    /\ consulta.feito
    /\ consulta.forno = cel_str(<<"1", "1", "F", "3">>)
    /\ consulta.retorno = "Linha 4 e 5"

\* the (period, team) pairs of the production rows and of the non-excluded
\* retained rows of one line
pares_da_linha(linha) ==
    {[mes_ano |-> periodo(r), Equipe |-> r.Equipe] :
        r \in {x \in RangeOf(tela.df_prod) \cup RangeOf(tela.df_ret_filtrado) :
                 x.Linha = linha}}

\* the summed quantity of the rows of one line, period and team
soma_do_par(linhas, linha, par, qtd(_)) ==
    f_sum(coluna(do_periodo_e_equipe(linhas, linha, par.mes_ano, par.Equipe),
                 qtd))

\* the summed quantity of the rows of one line and period, over its teams
soma_do_periodo(linhas, linha, per, qtd(_)) ==
    f_sum(coluna(filtrar(linhas, LAMBDA x : x.Linha = linha
                                            /\ periodo(x) = per),
                 qtd))

\* the time series `ev` of one line is the outer join by (period, team)
\* with one 'Media Geral' row per period, in order
serie_confere(ev, linha) ==
    LET pares == pares_da_linha(linha)
        periodos == {par.mes_ano : par \in pares}
    IN /\ \A par \in pares :
             /\ Cardinality({i \in DOMAIN ev : ev[i].mes_ano = par.mes_ano
                                               /\ ev[i].Equipe = par.Equipe})
                  = 1
             /\ \A i \in DOMAIN ev :
                   (ev[i].mes_ano = par.mes_ano /\ ev[i].Equipe = par.Equipe)
                   => /\ ev[i].M2_Produzido =
                           soma_do_par(tela.df_prod, linha, par,
                                       LAMBDA x : x.metragem_real)
                      /\ ev[i].M2_Retido =
                           soma_do_par(tela.df_ret_filtrado, linha, par,
                                       LAMBDA x : x.m2_real)
       /\ \A per \in periodos :
             /\ Cardinality({i \in DOMAIN ev :
                               ev[i].mes_ano = per
                               /\ ev[i].Equipe = cel_str(MEDIA_GERAL)}) = 1
             /\ \A i \in DOMAIN ev :
                   (ev[i].mes_ano = per /\ ev[i].Equipe = cel_str(MEDIA_GERAL))
                   => /\ ev[i].M2_Produzido =
                           soma_do_periodo(tela.df_prod, linha, per,
                                           LAMBDA x : x.metragem_real)
                      /\ ev[i].M2_Retido =
                           soma_do_periodo(tela.df_ret_filtrado, linha, per,
                                           LAMBDA x : x.m2_real)
       /\ Len(ev) = Cardinality(pares) + Cardinality(periodos)
       /\ \A i, j \in DOMAIN ev :
             i < j =>
                \/ str_lt(ev[i].mes_ano.s, ev[j].mes_ano.s)
                \/ /\ ev[i].mes_ano = ev[j].mes_ano
                   /\ ev[i].Equipe # cel_str(MEDIA_GERAL)
                   /\ \/ ev[j].Equipe = cel_str(MEDIA_GERAL)
                      \/ str_lt(str_de(ev[i].Equipe), str_de(ev[j].Equipe))

\* C13: in the time series of a line every (period, team) pair of the
\* production rows or of the non-excluded retained rows appears exactly
\* once, the missing side being 0; every period has one 'Media Geral' row
\* with the sums over the period's teams; rows are ordered by period, the
\* 'Media Geral' row after the teams, the teams by name.
C13_SerieTemporalCompleta ==
    tela.etapa = "dashboard" =>
        \A k \in 1..2 :
            serie_confere(tela.evolucao[k].linhas, LINHAS_EVOLUCAO[k])

====
